---- MODULE Spec2Model ----
(***************************************************************************)
(* A model of madminer/plotting.py: six rendering functions that share the *)
(* pyplot figure registry.  A call is one action: it runs the function's   *)
(* statements in source order against the registry and leaves the record   *)
(* of what it computed, queried and drew in `last`.                         *)
(*                                                                         *)
(* Numbers are exact integers.  Grid coordinates are the values of         *)
(* np.linspace for ranges whose step is integral; lengths along the x axis *)
(* of the bar plot are in hundredths; a square root is kept as its         *)
(* radicand (a record [sqrt_of |-> n]).                                     *)
(***************************************************************************)
EXTENDS Integers, Sequences, FiniteSets, TLC

VARIABLES pc, gcf, last

vars == <<pc, gcf, last>>

(***************************************************************************)
(* Bounds of the model.                                                    *)
(***************************************************************************)
MaxFigs == 2
MaxResolution == 3
MaxMatrices == 2
MaxEntries == 3

(***************************************************************************)
(* Sequence helpers.                                                       *)
(***************************************************************************)
RECURSIVE SumSeq(_)
SumSeq(s) == IF s = <<>> THEN 0 ELSE Head(s) + SumSeq(Tail(s))

RECURSIVE MaxSeq(_)
MaxSeq(s) == IF Len(s) = 1 THEN s[1]
             ELSE LET m == MaxSeq(Tail(s)) IN IF s[1] >= m THEN s[1] ELSE m

RECURSIVE Flatten(_)
Flatten(ss) == IF ss = <<>> THEN <<>> ELSE Head(ss) \o Flatten(Tail(ss))

Range(s) == {s[i] : i \in 1..Len(s)}

(***************************************************************************)
(* numpy: linspace, meshgrid (default 'xy' indexing), row-major reshape.   *)
(***************************************************************************)
Integral(rng, num) == num = 1 \/ (rng[2] - rng[1]) % (num - 1) = 0

Linspace(start, stop, num) ==
    [i \in 1..num |-> IF num = 1 THEN start
                      ELSE start + ((i - 1) * (stop - start)) \div (num - 1)]

\* xx[r][c] = xi[c], yy[r][c] = yi[r]
MeshgridX(xi, yi) == [r \in 1..Len(yi) |-> [c \in 1..Len(xi) |-> xi[c]]]
MeshgridY(xi, yi) == [r \in 1..Len(yi) |-> [c \in 1..Len(xi) |-> yi[r]]]

\* a.reshape((rows, cols)) of a flat sequence, C order
Reshape(flat, rows, cols) ==
    [r \in 1..rows |-> [c \in 1..cols |-> flat[(r - 1) * cols + c]]]

(***************************************************************************)
(* pyplot.  The registry (Gcf) is the sequence gcf of open figure numbers, *)
(* the last one the current figure.  A call's statements run on a frame    *)
(* [gcf, fig, ax, log]: fig is the local variable `fig`, ax the figure the *)
(* local axes object belongs to, log the events of the call.               *)
(***************************************************************************)
FrameIn(g, backend) == [gcf |-> g, fig |-> 0, ax |-> 0, log |-> <<>>, backend |-> backend]

Frame(g) == FrameIn(g, "agg")

NextNum(g) == IF g = <<>> THEN 1 ELSE MaxSeq(g) + 1

Current(g) == IF g = <<>> THEN 0 ELSE g[Len(g)]

Event(op, target) == [op |-> op, target |-> target]

\* fig = plt.figure(...)
PltFigure(f) ==
    LET n == NextNum(f.gcf)
    IN [f EXCEPT !.gcf = Append(f.gcf, n), !.fig = n,
                 !.log = Append(f.log, Event("plt.figure", n))]

\* plt.gcf(): the current figure, opened when there is none
WithCurrent(f) ==
    IF f.gcf = <<>>
    THEN LET n == NextNum(f.gcf)
         IN [f EXCEPT !.gcf = Append(f.gcf, n),
                      !.log = Append(f.log, Event("implicit figure", n))]
    ELSE f

\* plt.<op>(...): acts on the current figure
Plt(f, op) ==
    LET g == WithCurrent(f)
    IN [g EXCEPT !.log = Append(g.log, Event(op, Current(g.gcf)))]

\* ax = plt.gca() / plt.subplot(...): axes of the current figure
PltAxes(f, op) ==
    LET g == Plt(f, op)
    IN [g EXCEPT !.ax = Current(g.gcf)]

\* ax.<op>(...): acts on the figure the axes belong to
Ax(f, op) == [f EXCEPT !.log = Append(f.log, Event(op, f.ax))]

\* fig.<op>(...): acts on the figure held in `fig`
Fig(f, op) == [f EXCEPT !.log = Append(f.log, Event(op, f.fig))]

\* ax2 = ax1.twinx(): new axes on the figure of the axes
Twinx(f, op) == [f EXCEPT !.log = Append(f.log, Event(op, f.ax))]

\* plt.show(): a no-op on a non-interactive backend ("agg"); on an interactive one
\* ("blocking") it returns when the user has closed every window, which empties
\* the registry
PltShow(f) ==
    [f EXCEPT !.gcf = IF f.backend = "blocking" THEN <<>> ELSE f.gcf,
              !.log = Append(f.log, Event("plt.show", Current(f.gcf)))]

\* plt.close(): closes the current figure, if there is one
PltClose(f) ==
    [f EXCEPT !.gcf = IF f.gcf = <<>> THEN <<>> ELSE SubSeq(f.gcf, 1, Len(f.gcf) - 1),
              !.log = Append(f.log, Event("plt.close", Current(f.gcf)))]

\* create_missing_folders([os.path.dirname(filename)])
CreateMissingFolders(f) == [f EXCEPT !.log = Append(f.log, Event("create_missing_folders", 0))]

RECURSIVE Repeat(_, _)
Repeat(s, n) == IF n = 0 THEN <<>> ELSE s \o Repeat(s, n - 1)

\* a statement is <<kind, op>>; Exec runs one, RunStmts a sequence of them
Exec(f, s) ==
    CASE s[1] = "figure" -> PltFigure(f)
      [] s[1] = "plt" -> Plt(f, s[2])
      [] s[1] = "axes" -> PltAxes(f, s[2])
      [] s[1] = "ax" -> Ax(f, s[2])
      [] s[1] = "fig" -> Fig(f, s[2])
      [] s[1] = "twinx" -> Twinx(f, s[2])
      [] s[1] = "show" -> PltShow(f)
      [] s[1] = "close" -> PltClose(f)
      [] s[1] = "mkdir" -> CreateMissingFolders(f)

\* the frame of each statement is evaluated (its log read) before the next one runs
RECURSIVE RunFrom(_, _, _)
RunFrom(f, ss, i) ==
    IF i > Len(ss) THEN f
    ELSE LET g == Exec(f, ss[i])
         IN IF Len(g.log) >= 0 THEN RunFrom(g, ss, i + 1) ELSE g

RunStmts(f, ss) == RunFrom(f, ss, 1)

\* the events of a log that draw on a figure or save it
NotDrawing == {"plt.figure", "implicit figure", "plt.show", "plt.close", "create_missing_folders"}

Draws(log) == {i \in 1..Len(log) : log[i].op \notin NotDrawing}

(***************************************************************************)
(* The record a call leaves.                                               *)
(***************************************************************************)
NoOut == [none |-> TRUE]

\* before / after: the registry when the call starts and when it ends
Result(fn, args, outcome, frame, queries, out, before) ==
    [fn |-> fn, args |-> args, outcome |-> outcome, created |-> frame.fig,
     log |-> frame.log, queries |-> queries, out |-> out,
     before |-> before, after |-> frame.gcf]

Query(fn, theta) == [fn |-> fn, theta |-> theta]

NoCall == Result("none", NoOut, "none", Frame(<<>>), <<>>, NoOut, <<>>)

(***************************************************************************)
(* The morpher, an external collaborator: a basis (or None) and a weight   *)
(* function, one weight per basis point.                                   *)
(***************************************************************************)
\* morpher.calculate_morphing_weights(theta, None)
MorphingWeights(morpher, theta) ==
    [k \in 1..Len(morpher.basis) |->
        k + SumSeq([i \in 1..Len(theta) |->
                IF i <= Len(morpher.basis[k]) THEN i * theta[i] * morpher.basis[k][i] ELSE 0])]

\* np.sum(wi * wi) ** 0.5
Norm(wi) == [sqrt_of |-> SumSeq([k \in 1..Len(wi) |-> wi[k] * wi[k]])]

NParameters(morpher) == Len(morpher.basis[1])

(***************************************************************************)
(* plot_2d_morphing_basis                                                  *)
(***************************************************************************)
\* lines 57-60: the test points, one row per grid point, in the order queried
ThetaTest2d(xi, yi) ==
    LET xx == Flatten(MeshgridX(xi, yi))
        yy == Flatten(MeshgridY(xi, yi))
    IN [k \in 1..Len(xx) |-> <<xx[k], yy[k]>>]

\* a.reshape in column-major (Fortran) order
ReshapeF(flat, rows, cols) ==
    [r \in 1..rows |-> [c \in 1..cols |-> flat[(c - 1) * rows + r]]]

SquaredWeightsColumnMajor(morpher, theta_test, resolution) ==
    ReshapeF([k \in 1..Len(theta_test) |-> Norm(MorphingWeights(morpher, theta_test[k]))],
             resolution, resolution)

\* lines 62-66: one query per test point, reduced to the norm, reshaped
SquaredWeights(morpher, theta_test, resolution) ==
    Reshape([k \in 1..Len(theta_test) |-> Norm(MorphingWeights(morpher, theta_test[k]))],
            resolution, resolution)

Stmts2dAxesFirst ==
    << <<"axes", "plt.gca">>, <<"figure", "plt.figure">>, <<"ax", "ax.pcolormesh">>,
       <<"fig", "fig.colorbar">>, <<"plt", "plt.scatter">>, <<"plt", "plt.xlabel">>,
       <<"plt", "plt.ylabel">>, <<"fig", "cbar.set_label">>, <<"plt", "plt.xlim">>,
       <<"plt", "plt.ylim">>, <<"plt", "plt.tight_layout">> >>

\* lines 68-84
Stmts2d ==
    << <<"figure", "plt.figure">>, <<"axes", "plt.gca">>, <<"ax", "ax.pcolormesh">>,
       <<"fig", "fig.colorbar">>, <<"plt", "plt.scatter">>, <<"plt", "plt.xlabel">>,
       <<"plt", "plt.ylabel">>, <<"fig", "cbar.set_label">>, <<"plt", "plt.xlim">>,
       <<"plt", "plt.ylim">>, <<"plt", "plt.tight_layout">> >>

\* lines 54-55: both assertions pass
Basis2dUnchecked(morpher) == morpher.has_basis

Basis2dOk(morpher) == morpher.has_basis /\ NParameters(morpher) = 2

Plot2dMorphingBasis(a, g) ==
    IF ~Basis2dOk(a.morpher)
    THEN Result("plot_2d_morphing_basis", a, "AssertionError", Frame(g), <<>>, NoOut, g)
    ELSE LET xi == Linspace(a.xrange[1], a.xrange[2], a.resolution)
             yi == Linspace(a.yrange[1], a.yrange[2], a.resolution)
             theta_test == ThetaTest2d(xi, yi)
             squared_weights == SquaredWeights(a.morpher, theta_test, a.resolution)
         IN Result("plot_2d_morphing_basis", a, "ok", RunStmts(Frame(g), Stmts2d),
                   [k \in 1..Len(theta_test) |->
                       Query("calculate_morphing_weights", theta_test[k])],
                   [xi |-> xi, yi |-> yi, mesh |-> squared_weights], g)

(***************************************************************************)
(* plot_nd_morphing_basis_scatter, plot_nd_morphing_basis_slices           *)
(***************************************************************************)
\* the panels (ix, iy), 0-based as in the source, in loop order
RECURSIVE PanelsFrom(_, _, _)
PanelsFrom(iy, ix, n) ==
    IF iy >= n THEN <<>>
    ELSE IF ix >= iy THEN PanelsFrom(iy + 1, 0, n)
    ELSE << <<ix, iy>> >> \o PanelsFrom(iy, ix + 1, n)

Panels(n_parameters) == PanelsFrom(1, 0, n_parameters)

StmtsScatterPanel ==
    << <<"axes", "plt.subplot">>, <<"plt", "plt.scatter">>, <<"fig", "fig.colorbar">>,
       <<"plt", "plt.scatter">>, <<"plt", "plt.xlabel">>, <<"plt", "plt.ylabel">>,
       <<"fig", "cbar.set_label">> >>

PlotNdMorphingBasisScatter(a, g) ==
    IF ~a.morpher.has_basis
    THEN Result("plot_nd_morphing_basis_scatter", a, "AssertionError", Frame(g), <<>>, NoOut, g)
    ELSE LET n_parameters == NParameters(a.morpher)
             stmts == << <<"figure", "plt.figure">> >>
                      \o Repeat(StmtsScatterPanel, Len(Panels(n_parameters)))
                      \o << <<"plt", "plt.tight_layout">> >>
         IN Result("plot_nd_morphing_basis_scatter", a, "ok", RunStmts(Frame(g), stmts),
                   << Query("evaluate_morphing", <<>>) >>,
                   [panels |-> Panels(n_parameters)], g)

\* lines 186-188: zeros but for the two parameters of the panel
ThetaTestSlice(xi, yi, ix, iy, n_parameters) ==
    LET xx == Flatten(MeshgridX(xi, yi))
        yy == Flatten(MeshgridY(xi, yi))
    IN [k \in 1..Len(xx) |->
           [i \in 1..n_parameters |->
               IF i = ix + 1 THEN xx[k] ELSE IF i = iy + 1 THEN yy[k] ELSE 0]]

SlicePanel(morpher, panel, resolution) ==
    LET ix == panel[1]
        iy == panel[2]
        xrange == morpher.parameter_range[ix + 1]
        yrange == morpher.parameter_range[iy + 1]
        xi == Linspace(xrange[1], xrange[2], resolution)
        yi == Linspace(yrange[1], yrange[2], resolution)
        theta_test == ThetaTestSlice(xi, yi, ix, iy, NParameters(morpher))
    IN [ix |-> ix, iy |-> iy, xi |-> xi, yi |-> yi, theta_test |-> theta_test,
        mesh |-> SquaredWeights(morpher, theta_test, resolution)]

StmtsSlicePanel ==
    << <<"axes", "plt.subplot">>, <<"ax", "ax.pcolormesh">>, <<"fig", "fig.colorbar">>,
       <<"plt", "plt.scatter">>, <<"plt", "plt.xlabel">>, <<"plt", "plt.ylabel">>,
       <<"fig", "cbar.set_label">> >>

PlotNdMorphingBasisSlices(a, g) ==
    IF ~a.morpher.has_basis
    THEN Result("plot_nd_morphing_basis_slices", a, "AssertionError", Frame(g), <<>>, NoOut, g)
    ELSE LET ps == Panels(NParameters(a.morpher))
             panels == [p \in 1..Len(ps) |-> SlicePanel(a.morpher, ps[p], a.resolution)]
             stmts == << <<"figure", "plt.figure">> >>
                      \o Repeat(StmtsSlicePanel, Len(ps))
                      \o << <<"plt", "plt.tight_layout">> >>
         IN Result("plot_nd_morphing_basis_slices", a, "ok", RunStmts(Frame(g), stmts),
                   Flatten([p \in 1..Len(ps) |->
                       [k \in 1..Len(panels[p].theta_test) |->
                           Query("calculate_morphing_weights", panels[p].theta_test[k])]]),
                   [panels |-> panels], g)

(***************************************************************************)
(* plot_fisher_information_contours_2d                                     *)
(*                                                                         *)
(* The first argument is an array: its shape and, for shape (n, 2, 2), its *)
(* n matrices.  An optional value is a record [some, val].                 *)
(***************************************************************************)
None == [some |-> FALSE, val |-> <<>>]
Some(v) == [some |-> TRUE, val |-> v]

\* lines 331-335: thetas, one row (x, y) per grid point
Thetas(xi, yi) ==
    LET xx == Flatten(MeshgridX(xi, yi))
        yy == Flatten(MeshgridY(xi, yi))
    IN [k \in 1..Len(xx) |-> <<xx[k], yy[k]>>]

\* lines 338-341: matrix times column vector
MatVec(m, theta) == [i \in 1..2 |-> m[i][1] * theta[1] + m[i][2] * theta[2]]

\* lines 342-345: row vector times the column from the first matmul
VecVec(theta, col) == theta[1] * col[1] + theta[2] * col[2]

FisherDistancesSquaredColumnMajor(matrices, thetas, resolution) ==
    [m \in 1..Len(matrices) |->
        ReshapeF([k \in 1..Len(thetas) |-> VecVec(thetas[k], MatVec(matrices[m], thetas[k]))],
                 resolution, resolution)]

\* lines 338-346
FisherDistancesSquared(matrices, thetas, resolution) ==
    [m \in 1..Len(matrices) |->
        Reshape([k \in 1..Len(thetas) |-> VecVec(thetas[k], MatVec(matrices[m], thetas[k]))],
                resolution, resolution)]

\* line 350: einsum('ni,mij,nj->mn')
Einsum3(theta, m) ==
    SumSeq(Flatten([i \in 1..2 |-> [j \in 1..2 |-> theta[i] * m[i][j] * theta[j]]]))

\* lines 350-351
FisherDistancesAltSquared(matrices, thetas, resolution) ==
    [m \in 1..Len(matrices) |->
        Reshape([k \in 1..Len(thetas) |-> Einsum3(thetas[k], matrices[m])],
                resolution, resolution)]

\* line 361: einsum('ni,nj,ijkl,nk,nl->n')
Einsum5(theta, cov) ==
    SumSeq(Flatten(Flatten(Flatten(
        [i \in 1..2 |-> [j \in 1..2 |-> [k \in 1..2 |-> [l \in 1..2 |->
            theta[i] * theta[j] * cov[i][j][k][l] * theta[k] * theta[l]]]]]))))

\* lines 355-367: var ** 0.5 per grid point, or None; a negative var gives nan
Uncertainties(covs, thetas, resolution) ==
    [m \in 1..Len(covs) |->
        IF ~covs[m].some THEN None
        ELSE Some(Reshape([k \in 1..Len(thetas) |-> [sqrt_of |-> Einsum5(thetas[k], covs[m].val)]],
                          resolution, resolution))]

\* comparisons of d2 + sign * sqrt(v) with t; every comparison with nan is false
SurdGt(d2, sign, sigma, t) ==
    LET e == t - d2
        v == sigma.sqrt_of
    IN /\ v >= 0
       /\ IF sign = 1 THEN e < 0 \/ v > e * e ELSE e < 0 /\ v < e * e

SurdLt(d2, sign, sigma, t) ==
    LET e == t - d2
        v == sigma.sqrt_of
    IN /\ v >= 0
       /\ IF sign = 1 THEN e > 0 /\ v < e * e ELSE e > 0 \/ v > e * e

BandAtInclusive(d2, sigma, d2_threshold) ==
    LET e == d2_threshold - d2
    IN sigma.sqrt_of >= 0 /\ e * e <= sigma.sqrt_of

\* lines 375-377 at one grid point
BandAt(d2, sigma, d2_threshold) ==
    \/ SurdGt(d2, 1, sigma, d2_threshold) /\ SurdLt(d2, -1, sigma, d2_threshold)
    \/ SurdLt(d2, 1, sigma, d2_threshold) /\ SurdGt(d2, -1, sigma, d2_threshold)

\* lines 373-385: the band of every matrix that has a covariance
Bands(covs, d2, unc, d2_threshold, resolution) ==
    [m \in 1..Len(d2) |->
        IF covs[m].some
        THEN Some([r \in 1..resolution |-> [c \in 1..resolution |->
                      BandAt(d2[m][r][c], unc[m].val[r][c], d2_threshold)]])
        ELSE None]

\* line 308
D2Threshold(contour_distance) == contour_distance * contour_distance

\* lines 373-398: one contourf per band, one contour per matrix
RECURSIVE StmtsBands(_, _)
StmtsBands(covs, i) ==
    IF i > Len(covs) THEN <<>>
    ELSE (IF covs[i].some THEN << <<"plt", "plt.contourf">> >> ELSE <<>>)
         \o StmtsBands(covs, i + 1)

StmtsFisher(a, covs, n_matrices) ==
    << <<"figure", "plt.figure">> >>
    \o StmtsBands(covs, 1)
    \o Repeat(<< <<"plt", "plt.contour">> >>
              \o (IF a.inline_labels THEN << <<"plt", "plt.clabel">> >> ELSE <<>>), n_matrices)
    \o (IF a.labels THEN << <<"plt", "plt.legend">> >> ELSE <<>>)
    \o << <<"axes", "plt.axes">>, <<"ax", "set_xlim">>, <<"axes", "plt.axes">>,
          <<"ax", "set_ylim">>, <<"plt", "plt.xlabel">>, <<"plt", "plt.ylabel">>,
          <<"plt", "plt.tight_layout">> >>

\* line 301
ShapeOkRank(shape) == Len(shape) = 3

ShapeOk(shape) == shape = <<shape[1], 2, 2>>

PlotFisherInformationContours2d(a, g) ==
    LET shape == a.shape
        fail(e) == Result("plot_fisher_information_contours_2d", a, e, Frame(g), <<>>, NoOut, g)
    IN IF shape = <<>> THEN fail("IndexError")
       ELSE IF ~ShapeOk(shape) THEN fail("RuntimeError")
       ELSE LET n_matrices == shape[1]
                covs == IF a.fisher_information_covariances.some
                        THEN a.fisher_information_covariances.val
                        ELSE [i \in 1..n_matrices |-> None]
                d2_threshold == D2Threshold(a.contour_distance)
                xi == Linspace(a.xrange[1], a.xrange[2], a.resolution)
                yi == Linspace(a.yrange[1], a.yrange[2], a.resolution)
                thetas == Thetas(xi, yi)
                d2 == FisherDistancesSquared(a.matrices, thetas, a.resolution)
                alt == FisherDistancesAltSquared(a.matrices, thetas, a.resolution)
                unc == Uncertainties(covs, thetas, a.resolution)
            IN Result("plot_fisher_information_contours_2d", a, "ok",
                      RunStmts(Frame(g), StmtsFisher(a, covs, n_matrices)), <<>>,
                      [xi |-> xi, yi |-> yi, d2 |-> d2, alt |-> alt,
                       level |-> d2_threshold, unc |-> unc,
                       bands |-> Bands(covs, d2, unc, d2_threshold, a.resolution)], g)

(***************************************************************************)
(* plot_fisherinfo_barplot                                                 *)
(*                                                                         *)
(* A float x ** (1 / root) or a quotient of two of them is the record      *)
(* [nan, num, den, root]: the value (num / den) ** (1 / root).  Positions  *)
(* along the x axis are in hundredths.                                     *)
(***************************************************************************)
\* np.linalg.det
Det(m) ==
    IF Len(m) = 2 THEN m[1][1] * m[2][2] - m[1][2] * m[2][1]
    ELSE m[1][1] * (m[2][2] * m[3][3] - m[2][3] * m[3][2])
         - m[1][2] * (m[2][1] * m[3][3] - m[2][3] * m[3][1])
         + m[1][3] * (m[2][1] * m[3][2] - m[2][2] * m[3][1])

\* line 456: det ** exponent_lower, nan for a negative determinant
PowRoot(x, root) == [nan |-> x < 0, num |-> x, den |-> 1, root |-> root]

\* x > y for two floats of the same denominator; false when either is nan
FloatGt(x, y) == ~x.nan /\ ~y.nan /\ x.num > y.num

\* Python's max(list): keeps the first item unless a later one compares greater
RECURSIVE PyMaxFrom(_, _, _)
PyMaxFrom(s, i, m) ==
    IF i > Len(s) THEN m ELSE PyMaxFrom(s, i + 1, IF FloatGt(s[i], m) THEN s[i] ELSE m)

PyFirst(s) == s[1]

PyMax(s) == PyMaxFrom(s, 2, s[1])

\* line 460: x / max_information; 0 / 0 is nan
FloatDiv(x, m) ==
    [nan |-> x.nan \/ m.nan \/ (x.num = 0 /\ m.num = 0),
     num |-> x.num, den |-> m.num, root |-> x.root]

\* lines 456-462
Determinants(matrices_for_determinants, size_lower, normalise_determinants) ==
    LET determinants == [i \in 1..Len(matrices_for_determinants) |->
                            PowRoot(Det(matrices_for_determinants[i]), size_lower)]
    IN IF normalise_determinants
       THEN [max_information |-> PyMax(determinants),
             determinants |-> [i \in 1..Len(determinants) |->
                                  FloatDiv(determinants[i], PyMax(determinants))]]
       ELSE [max_information |-> PowRoot(1, 1), determinants |-> determinants]

\* np.linalg.eig and the transpose of line 478, for a diagonal matrix or one whose
\* leading 2x2 block is [[a, b], [b, a]] and the rest diagonal: pairs
\* <<eigenvalue, eigenvector>>, the eigenvector not normalised
EigPairs(m) ==
    LET n == Len(m)
        unit(i) == [j \in 1..n |-> IF j = i THEN 1 ELSE 0]
    IN IF m[1][2] = 0 THEN [i \in 1..n |-> <<m[i][i], unit(i)>>]
       ELSE [i \in 1..n |->
                IF i = 1 THEN <<m[1][1] + m[1][2], [j \in 1..n |-> IF j <= 2 THEN 1 ELSE 0]>>
                ELSE IF i = 2
                THEN <<m[1][1] - m[1][2],
                       [j \in 1..n |-> IF j = 1 THEN 1 ELSE IF j = 2 THEN -1 ELSE 0]>>
                ELSE <<m[i][i], unit(i)>>]

\* lines 479-481: sorted(..., key=eigenvalue, reverse=True), a stable sort
RECURSIVE InsertDescending(_, _)
InsertDescending(s, p) ==
    IF s = <<>> THEN <<p>>
    ELSE IF Head(s)[1] >= p[1] THEN <<Head(s)>> \o InsertDescending(Tail(s), p)
    ELSE <<p>> \o s

RECURSIVE SortedDescending(_)
SortedDescending(s) ==
    IF s = <<>> THEN <<>>
    ELSE InsertDescending(SortedDescending(SubSeq(s, 1, Len(s) - 1)), s[Len(s)])

Abs(x) == IF x < 0 THEN -x ELSE x

\* np.argmax(np.absolute(wi)): the first index (0-based) of the largest entry
ArgMaxAbs(wi) ==
    (CHOOSE j \in 1..Len(wi) :
        /\ \A k \in 1..Len(wi) : Abs(wi[k]) <= Abs(wi[j])
        /\ \A k \in 1..(j - 1) : Abs(wi[k]) < Abs(wi[j])) - 1

\* line 488: wi * wi / sum(wi * wi), each fraction as num / den
Composition(wi) ==
    [j \in 1..Len(wi) |-> [num |-> wi[j] * wi[j],
                           den |-> SumSeq([k \in 1..Len(wi) |-> wi[k] * wi[k]])]]

\* lines 476-492 for one matrix
EigenDecomposition(m) ==
    LET vw == SortedDescending(EigPairs(m))
    IN [eigenvalues |-> [e \in 1..Len(vw) |-> vw[e][1]],
        dominant_components |-> [e \in 1..Len(vw) |-> ArgMaxAbs(vw[e][2])],
        composition |-> [e \in 1..Len(vw) |-> Composition(vw[e][2])]]

\* line 549 / 560: fraction >= minimal_fraction_for_plot (0.01)
FractionPlotted(fraction) == 100 * fraction.num >= fraction.den

\* lines 546-552
NGaps(composition) ==
    Cardinality({j \in 1..Len(composition) : FractionPlotted(composition[j])}) - 1

\* lines 554-568: the segments of one eigenvalue.  from / to are fractions of the
\* bar's width in units of 1 / (25 * den): gap_fraction (0.04) is den units and
\* gap_correction_factor * fraction is (25 - n_gaps) * num units
RECURSIVE SegmentsFrom(_, _, _, _)
SegmentsFrom(composition, j, fraction_finished, n_gaps) ==
    IF j > Len(composition) THEN <<>>
    ELSE LET fraction == composition[j]
             length == (25 - n_gaps) * fraction.num
         IN IF FractionPlotted(fraction)
            THEN << [component |-> j - 1, from |-> fraction_finished,
                     to |-> fraction_finished + length, unit |-> 25 * fraction.den] >>
                 \o SegmentsFrom(composition, j + 1,
                                 fraction_finished + length + fraction.den, n_gaps)
            ELSE SegmentsFrom(composition, j + 1, fraction_finished, n_gaps)

Segments(composition) == SegmentsFrom(composition, 1, 0, NGaps(composition))

\* lines 495-496
Categories(categories, n_entries) ==
    IF Len(categories) = 0 THEN [i \in 1..n_entries |-> 0] ELSE categories

\* lines 503-505, in hundredths
BaseXValues(categories, n_entries) ==
    [i \in 1..n_entries |-> 100 * (i - 1) + 100 * categories[i]]

\* lines 521-527
SixColors == <<"red", "blue", "green", "darkorange", "fuchsia", "turquoise">>

EigenvalueColors == Repeat(SixColors, 5)

BarColors(use_bar_colors) == IF use_bar_colors THEN Repeat(SixColors, 5) ELSE Repeat(<<"0.5">>, 30)

Min(a, b) == IF a <= b THEN a ELSE b

\* zip(a, b, c) of three lists: as long as the shortest
Zip3(a, b, c) ==
    [i \in 1..Min(Len(a), Min(Len(b), Len(c))) |-> <<a[i], b[i], c[i]>>]

\* lines 630-638.  legend_labels_x in hundredths; in the else branch a list plus
\* an ndarray is numpy's elementwise sum, broadcast to the ndarray's two entries
LegendLabelsX(size_upper, operatorlabels) ==
    IF size_upper = 2 THEN <<58, 88, 94>>
    ELSE LET first == 94 - (Len(operatorlabels) - 1) * 10 - 40
             linspace == Linspace(94 - (Len(operatorlabels) - 1) * 10, 94, 2)
         IN [i \in 1..2 |-> first + linspace[i]]

\* lines 628-646: the texts drawn, x in units of 1 / 10000
LegendTexts(size_upper, operatorlabels, base_xmax) ==
    LET legend_labels == <<"Eigenvector composition:">> \o operatorlabels
        legend_labels_x == LegendLabelsX(size_upper, operatorlabels)
        legend_labels_color == <<"black">> \o EigenvalueColors
        z == Zip3(legend_labels, legend_labels_x, legend_labels_color)
    IN [i \in 1..Len(z) |-> [text |-> z[i][1], x |-> z[i][2] * base_xmax, color |-> z[i][3]]]

\* Python's max of the (possibly normalised) determinants times 1.05 is nan
LimitIsNan(determinants) == PyMax(determinants).nan

StmtsBarUpper(n_segments, n_texts) ==
    << <<"figure", "plt.figure">>, <<"axes", "plt.subplot">>, <<"ax", "ax1.set_yscale">>,
       <<"fig", "fig.subplots_adjust">> >>
    \o Repeat(<< <<"plt", "plt.hlines">> >>, n_segments)
    \o << <<"ax", "ax1.set_xlim">>, <<"ax", "ax1.set_ylim">>, <<"ax", "ax1.set_xticks">>,
          <<"ax", "ax1.set_xticklabels">>, <<"ax", "ax1.set_ylabel">>, <<"plt", "plt.title">>,
          <<"twinx", "ax1.twinx">>, <<"ax", "ax2.set_yscale">>, <<"ax", "ax2.set_yticks">>,
          <<"ax", "ax2.set_yticklabels">>, <<"ax", "ax2.set_yticks">>, <<"ax", "ax2.set_ylim">>,
          <<"ax", "ax2.set_ylabel">> >>
    \o Repeat(<< <<"ax", "ax1.text">> >>, n_texts)

StmtsBarLower ==
    << <<"axes", "plt.subplot">>, <<"ax", "ax3.bar">>, <<"ax", "ax3.set_xlim">> >>

StmtsBarRest(additional_label) ==
    << <<"ax", "ax3.set_ylim">>, <<"ax", "ax3.set_xticks">>, <<"ax", "ax3.set_xticklabels">>,
       <<"ax", "ax3.set_ylabel">> >>
    \o (IF additional_label THEN << <<"ax", "ax3.text">> >> ELSE <<>>)
    \o << <<"twinx", "ax3.twinx">>, <<"ax", "ax4.set_yticks">>, <<"ax", "ax4.set_yticklabels">>,
          <<"ax", "ax4.set_yticks">>, <<"ax", "ax4.set_ylim">>, <<"ax", "ax4.set_ylabel">> >>

StmtsSaveThenFolder ==
    << <<"show", "plt.show">>, <<"fig", "fig.savefig">>, <<"mkdir", "create_missing_folders">>,
       <<"close", "plt.close">> >>

\* lines 723-726
StmtsShowAndSave ==
    << <<"show", "plt.show">>, <<"mkdir", "create_missing_folders">>,
       <<"fig", "fig.savefig">>, <<"close", "plt.close">> >>

\* line 464
LabelsMatch(determinants, labels) == Len(determinants) = Len(labels)

PlotFisherinfoBarplot(a, g) ==
    LET fail(e) == Result("plot_fisherinfo_barplot", a, e, Frame(g), <<>>, NoOut, g)
    IN IF Len(a.matrices) < 2 \/ Len(a.matrices_for_determinants) < 2 THEN fail("IndexError")
       ELSE
       LET size_upper == Len(a.matrices[2])
           size_lower == Len(a.matrices_for_determinants[2])
           dets == Determinants(a.matrices_for_determinants, size_lower, a.normalise_determinants)
           determinants == dets.determinants
           n_entries == Len(determinants)
       IN IF ~LabelsMatch(determinants, a.labels) THEN fail("AssertionError")
          ELSE IF Len(a.categories) # 0 /\ Len(a.categories) < n_entries THEN fail("IndexError")
          ELSE
          LET eigen == [i \in 1..Len(a.matrices) |-> EigenDecomposition(a.matrices[i])]
              categories == Categories(a.categories, n_entries)
              base_xvalues == BaseXValues(categories, n_entries)
              base_xmin == base_xvalues[1]
              base_xmax == base_xvalues[n_entries] + 100
              segments == [i \in 1..n_entries |->
                              [e \in 1..Len(eigen[i].composition) |->
                                  Segments(eigen[i].composition[e])]]
              n_segments == SumSeq([i \in 1..n_entries |->
                                SumSeq([e \in 1..Len(segments[i]) |-> Len(segments[i][e])])])
              texts == IF a.eigenvalue_operator_legend
                       THEN LegendTexts(size_upper, a.operatorlabels, base_xmax)
                       ELSE <<>>
              raises == LimitIsNan(determinants) /\ a.nan_limits = "raise"
              stmts == StmtsBarUpper(n_segments, Len(texts)) \o StmtsBarLower
                       \o (IF raises THEN <<>>
                           ELSE StmtsBarRest(a.additional_label) \o StmtsShowAndSave)
          IN Result("plot_fisherinfo_barplot", a, IF raises THEN "ValueError" ELSE "ok",
                    RunStmts(FrameIn(g, a.backend), stmts), <<>>,
                    [size_upper |-> size_upper, size_lower |-> size_lower,
                     determinants |-> determinants, max_information |-> dets.max_information,
                     eigen |-> eigen, categories |-> categories,
                     base_xvalues |-> base_xvalues,
                     xmin_eigenvalues |-> [i \in 1..n_entries |-> base_xvalues[i] + 8],
                     xmax_eigenvalues |-> [i \in 1..n_entries |-> base_xvalues[i] + 92],
                     xpos_lower |-> [i \in 1..n_entries |-> base_xvalues[i] + 50],
                     width_lower |-> 80,
                     xlim |-> <<base_xmin - 20, base_xmax + 20>>,
                     bar_colors |-> [i \in 1..n_entries |->
                                        BarColors(a.use_bar_colors)[(categories[i] % 30) + 1]],
                     segments |-> segments, texts |-> texts], g)

(***************************************************************************)
(* kinematic_distribution_of_information                                   *)
(***************************************************************************)
\* np.nan_to_num: nan becomes 0
NanToNum(x) == IF x.nan THEN [x EXCEPT !.nan = FALSE, !.num = 0] ELSE x

\* 1. / sum(xsecs), with no lower limit on the sum
NormDenominatorUnguarded(xsecs, norm_xsec) ==
    IF ~norm_xsec THEN [epsilon |-> FALSE, n |-> 1]
    ELSE [epsilon |-> FALSE, n |-> SumSeq(xsecs)]

\* line 758: max(sum(xsecs), epsilon); epsilon (1e-9) is below every positive
\* integer, so the maximum is the sum when it is positive and epsilon otherwise
NormDenominator(xsecs, norm_xsec) ==
    IF ~norm_xsec THEN [epsilon |-> FALSE, n |-> 1]
    ELSE IF SumSeq(xsecs) > 0 THEN [epsilon |-> FALSE, n |-> SumSeq(xsecs)]
    ELSE [epsilon |-> TRUE, n |-> 0]

\* line 761: norm * xs, as the quotient xs / den
XsecNorm(xsecs, norm_xsec) ==
    [i \in 1..Len(xsecs) |-> [num |-> xsecs[i], den |-> NormDenominator(xsecs, norm_xsec)]]

\* line 766, doubled: xbins[i] + xbins[i + 1]
XVals2(xbins) == [i \in 1..(Len(xbins) - 1) |-> xbins[i] + xbins[i + 1]]

\* np.histogram on bin edges given as a sequence: they must not decrease
BinsIncreaseMonotonically(xbins) ==
    \A i \in 1..(Len(xbins) - 1) : xbins[i] <= xbins[i + 1]

\* np.histogram with a sequence of bin edges (the range is then not used): the
\* points below each edge are counted, those up to it for the last edge, and a
\* bin holds the difference of two consecutive counts.  Bin k is given as the
\* set of the points whose weights it sums.
Hist(xvals2, xbins) ==
    LET n_edges == Len(xbins)
        cum(k) == {i \in 1..Len(xvals2) :
                      IF k < n_edges THEN xvals2[i] < 2 * xbins[k]
                      ELSE xvals2[i] <= 2 * xbins[k]}
    IN [k \in 1..(n_edges - 1) |-> cum(k + 1) \ cum(k)]

\* lines 787-793: up to the first histogram
StmtsKinematicOpen(a) ==
    << <<"figure", "plt.figure">>, <<"axes", "plt.subplot">>, <<"fig", "fig.subplots_adjust">> >>
    \o (IF a.log_xsec THEN << <<"ax", "ax1.set_yscale">> >> ELSE <<>>)

StmtsKinematic(a) ==
    StmtsKinematicOpen(a)
    \o << <<"ax", "ax1.hist">>, <<"ax", "ax1.set_ylabel">>, <<"ax", "ax1.set_xlim">>,
          <<"ax", "ax1.set_ylim">>, <<"ax", "ax1.set_xlabel">>, <<"twinx", "ax1.twinx">> >>
    \o (IF a.show_aux THEN << <<"ax", "ax2.hist">> >> ELSE <<>>)
    \o << <<"ax", "ax2.hist">>, <<"ax", "ax2.hist">>, <<"ax", "ax2.set_xlim">>,
          <<"ax", "ax2.set_ylim">>, <<"ax", "ax2.set_ylabel">> >>
    \o StmtsShowAndSave

\* line 767
XValsMatch(xvals, n_entries) == Len(xvals) = n_entries

KinematicDistributionOfInformation(a, g) ==
    LET fail(e) == Result("kinematic_distribution_of_information", a, e, Frame(g), <<>>, NoOut, g)
    IN IF Len(a.matrices) < 2 THEN fail("IndexError")
       ELSE
       LET size == Len(a.matrices[2])
           determinants == [i \in 1..Len(a.matrices) |-> NanToNum(PowRoot(Det(a.matrices[i]), size))]
           determinants_aux ==
               [i \in 1..Len(a.matrices_aux) |-> NanToNum(PowRoot(Det(a.matrices_aux[i]), size))]
           xsec_norm == XsecNorm(a.xsecs, a.norm_xsec)
           n_entries == Len(determinants)
           xvals2 == XVals2(a.xbins)
       IN IF ~XValsMatch(xvals2, n_entries) THEN fail("AssertionError")
          ELSE IF Len(xsec_norm) # Len(xvals2) \/ ~BinsIncreaseMonotonically(a.xbins)
          THEN \* ax1.hist raises: weights of another shape than x, or decreasing bins
               Result("kinematic_distribution_of_information", a, "ValueError",
                      RunStmts(FrameIn(g, a.backend), StmtsKinematicOpen(a)), <<>>,
                      [determinants |-> determinants, determinants_aux |-> determinants_aux,
                       xsec_norm |-> xsec_norm, xvals2 |-> xvals2, hist |-> <<>>], g)
          ELSE Result("kinematic_distribution_of_information", a, "ok",
                      RunStmts(FrameIn(g, a.backend), StmtsKinematic(a)), <<>>,
                      [determinants |-> determinants, determinants_aux |-> determinants_aux,
                       xsec_norm |-> xsec_norm, xvals2 |-> xvals2,
                       hist |-> Hist(xvals2, a.xbins)], g)

(***************************************************************************)
(* Inputs.                                                                 *)
(***************************************************************************)
ParameterRange == << <<-2, 2>>, <<0, 6>>, <<-6, 0>> >>

NoBasis == [has_basis |-> FALSE, basis |-> <<>>, parameter_range |-> ParameterRange]

Bases ==
    {<< <<1>>, <<2>> >>, << <<0, 1>>, <<1, 2>> >>, << <<1, 0>>, <<0, 1>>, <<1, 1>> >>,
     << <<0, 1, 2>>, <<1, 1, 0>> >>}

Morphers ==
    {NoBasis} \cup
    {[has_basis |-> TRUE, basis |-> b, parameter_range |-> ParameterRange] : b \in Bases}

\* the nd functions open a figure of (n_parameters - 1) panels a side
MorphersNd == {m \in Morphers : m.has_basis => NParameters(m) >= 2}

Ranges == {<<-2, 2>>, <<0, 6>>, <<1, 1>>}

ArgsScatter == [morpher : MorphersNd, n_test_thetas : {1000}]

ArgsSlices ==
    {a \in [morpher : MorphersNd, resolution : 1..MaxResolution] :
        \A i \in 1..Len(ParameterRange) : Integral(ParameterRange[i], a.resolution)}

Args2d ==
    {a \in [morpher : Morphers, xrange : Ranges, yrange : Ranges, resolution : 1..MaxResolution] :
        Integral(a.xrange, a.resolution) /\ Integral(a.yrange, a.resolution)}

\* 2x2 matrices: the identity, a symmetric one, one that is not symmetric
Matrices2 == << << <<1, 0>>, <<0, 1>> >>, << <<2, 1>>, <<1, 3>> >>, << <<1, 2>>, <<0, 1>> >> >>

\* the list of n entries that cycles through `choices` from offset o
Cycle(choices, o, n) == [i \in 1..n |-> choices[((o + i - 1) % Len(choices)) + 1]]

Cycles(choices, n) == {Cycle(choices, o, n) : o \in 0..(Len(choices) - 1)}

\* covariance tensors (2,2,2,2): var = 4 x^4, var = (x^2 - y^2)^2, var = -x^4
Indices4 == (1..2) \X (1..2) \X (1..2) \X (1..2)

Tensor(c) ==
    [i \in 1..2 |-> [j \in 1..2 |-> [k \in 1..2 |-> [l \in 1..2 |-> c[<<i, j, k, l>>]]]]]

CovX == [q \in Indices4 |-> IF q = <<1, 1, 1, 1>> THEN 4 ELSE 0]

CovMixed ==
    [q \in Indices4 |->
        IF q[1] = q[3] /\ q[2] = q[4] THEN 1 ELSE IF q = <<1, 1, 2, 2>> THEN -4 ELSE 0]

CovNegative == [q \in Indices4 |-> IF q = <<1, 1, 1, 1>> THEN -1 ELSE 0]

Covariances == <<None, Some(Tensor(CovX)), Some(Tensor(CovMixed)), Some(Tensor(CovNegative))>>

ReferenceThetas == <<Some(<<2, 0>>), None>>

\* shapes that np.asarray can give the first argument
BadShapes == {<<>>, <<0>>, <<2, 2>>, <<1, 2, 3>>, <<1, 3, 2>>, <<2, 2, 2, 2>>, <<3>>}

FisherRanges == {<<-2, 2>>, <<0, 6>>}

ArgsFisherBad ==
    [shape : BadShapes, matrices : {<<>>}, fisher_information_covariances : {None},
     reference_thetas : {None}, contour_distance : {1}, xrange : {<<-2, 2>>},
     yrange : {<<-2, 2>>}, resolution : {2}, labels : {FALSE}, inline_labels : {FALSE}]

ArgsFisherGood ==
    UNION {
      {a \in [shape : {<<n, 2, 2>>}, matrices : Cycles(Matrices2, n),
              fisher_information_covariances : {None} \cup {Some(c) : c \in Cycles(Covariances, n)},
              reference_thetas : {None} \cup {Some(t) : t \in Cycles(ReferenceThetas, n)},
              contour_distance : {1, 2}, xrange : FisherRanges, yrange : {<<-2, 2>>},
              resolution : 2..MaxResolution, labels : BOOLEAN, inline_labels : BOOLEAN] :
          /\ Integral(a.xrange, a.resolution) /\ Integral(a.yrange, a.resolution)
          /\ a.inline_labels => a.labels}
      : n \in 0..MaxMatrices}

ArgsFisher == ArgsFisherBad \cup ArgsFisherGood

\* matrices for the upper panel, by size; EigPairs covers exactly these forms
Upper2 == << << <<4, 0>>, <<0, 1>> >>, << <<2, 1>>, <<1, 2>> >>, << <<1, 0>>, <<0, 4>> >> >>

Upper3 ==
    << << <<9, 0, 0>>, <<0, 4, 0>>, <<0, 0, 1>> >>, << <<2, 1, 0>>, <<1, 2, 0>>, <<0, 0, 5>> >>,
       << <<1, 0, 0>>, <<0, 1, 0>>, <<0, 0, 5>> >> >>

\* positive semi-definite matrices for the determinants, by size
Lower2 ==
    << << <<1, 0>>, <<0, 1>> >>, << <<2, 1>>, <<1, 3>> >>, << <<1, 1>>, <<1, 1>> >>,
       << <<4, 0>>, <<0, 1>> >> >>

Lower3 ==
    << << <<2, 0, 0>>, <<0, 2, 0>>, <<0, 0, 2>> >>, << <<1, 0, 0>>, <<0, 1, 0>>, <<0, 0, 0>> >>,
       << <<2, 1, 0>>, <<1, 2, 0>>, <<0, 0, 1>> >> >>

Singular2 == << << <<1, 1>>, <<1, 1>> >>, << <<1, 0>>, <<0, 0>> >> >>

Labels(n) == [i \in 1..n |-> "analysis"]

OperatorLabels(k) == SubSeq(<<"O1", "O2", "O3", "O4">>, 1, k)

MaxCategory == 2

BarDefault(n) ==
    [matrices |-> Cycle(Upper2, 0, n), matrices_for_determinants |-> Cycle(Lower2, 0, n),
     labels |-> Labels(n), categories |-> <<>>, operatorlabels |-> OperatorLabels(2),
     additional_label |-> FALSE, normalise_determinants |-> FALSE, use_bar_colors |-> FALSE,
     eigenvalue_operator_legend |-> TRUE, backend |-> "agg", nan_limits |-> "raise"]

\* the layout: every list of categories
ArgsBarLayout ==
    UNION {{[BarDefault(n) EXCEPT !.categories = c, !.use_bar_colors = u] :
               c \in {<<>>} \cup [1..n -> 0..MaxCategory], u \in BOOLEAN}
           : n \in 2..MaxEntries}

\* the determinants
ArgsBarDeterminants ==
    UNION {{[BarDefault(n) EXCEPT !.matrices_for_determinants = md,
                                  !.normalise_determinants = nd, !.nan_limits = nl] :
               md \in Cycles(Lower2, n) \cup Cycles(Lower3, n) \cup Cycles(Singular2, n),
               nd \in BOOLEAN, nl \in {"raise", "accept"}}
           : n \in 2..MaxEntries}

\* the upper panel and its legend
ArgsBarLegend ==
    UNION {{[BarDefault(n) EXCEPT !.matrices = m, !.operatorlabels = OperatorLabels(k),
                                  !.eigenvalue_operator_legend = l] :
               m \in Cycles(Upper2, n) \cup Cycles(Upper3, n), k \in 0..4, l \in BOOLEAN}
           : n \in 2..MaxEntries}

\* the lengths of the lists, and the backend
ArgsBarLifecycle ==
    UNION {{[BarDefault(n) EXCEPT !.labels = Labels(nl), !.backend = b, !.additional_label = al] :
               nl \in {n, n + 1}, b \in {"agg", "blocking"}, al \in BOOLEAN}
           : n \in 1..MaxEntries}

ArgsBar == ArgsBarLayout \cup ArgsBarDeterminants \cup ArgsBarLegend \cup ArgsBarLifecycle

Bins == {<<0, 2>>, <<0, 2, 4>>, <<0, 2, 6>>, <<0, 2, 4, 6>>, <<2, 2, 4>>, <<0, 3, 3>>, <<4, 2, 0>>}

Xsecs == <<3, 1, 0, 2>>

ArgsKinematic ==
    UNION {[xbins : Bins, xsecs : Cycles(Xsecs, n) \cup {[i \in 1..n |-> 0], Cycle(Xsecs, 0, n + 1)},
            matrices : {Cycle(Lower2, 0, n), Cycle(Lower3, 1, n)},
            matrices_aux : {Cycle(Lower2, 1, n)}, log_xsec : {FALSE}, norm_xsec : BOOLEAN,
            show_aux : BOOLEAN, backend : {"agg", "blocking"}]
           : n \in 1..MaxEntries}

(***************************************************************************)
(* Actions: a call from the idle caller, and the caller dropping the       *)
(* record of the call.                                                     *)
(***************************************************************************)
Call(r) ==
    /\ pc = "idle"
    /\ Len(r.after) <= MaxFigs
    /\ pc' = "returned"
    /\ gcf' = r.after
    /\ last' = r

CallPlot2d ==
    \E a \in Args2d : Call(Plot2dMorphingBasis(a, gcf))

CallPlotNdScatter ==
    \E a \in ArgsScatter : Call(PlotNdMorphingBasisScatter(a, gcf))

CallPlotNdSlices ==
    \E a \in ArgsSlices : Call(PlotNdMorphingBasisSlices(a, gcf))

CallPlotFisher ==
    \E a \in ArgsFisher : Call(PlotFisherInformationContours2d(a, gcf))

CallPlotBar ==
    \E a \in ArgsBar : Call(PlotFisherinfoBarplot(a, gcf))

CallKinematic ==
    \E a \in ArgsKinematic : Call(KinematicDistributionOfInformation(a, gcf))

Return ==
    /\ pc = "returned"
    /\ pc' = "idle"
    /\ last' = NoCall
    /\ UNCHANGED gcf

Init ==
    /\ pc = "idle"
    /\ gcf = <<>>
    /\ last = NoCall

Next ==
    \/ CallPlot2d
    \/ CallPlotNdScatter
    \/ CallPlotNdSlices
    \/ CallPlotFisher
    \/ CallPlotBar
    \/ CallKinematic
    \/ Return

Spec == Init /\ [][Next]_vars

(***************************************************************************)
(* The segments of one eigenvalue (lines 545-568), for eigenvectors of     *)
(* every dimension up to the number of segment colors.                     *)
(***************************************************************************)
\* line 527: six colors, five times
MaxDimension == 30

\* eigenvectors (not normalised) of n components: k equal components, as of a
\* matrix with a k x k block of equal entries; and one dominant component next
\* to small ones, whose fraction is below 0.01
Eigenvectors ==
    UNION {{[j \in 1..n |-> IF j <= k THEN 1 ELSE 0] : k \in 1..n} : n \in 1..MaxDimension}
    \cup {[j \in 1..n |-> IF j = d THEN 10 ELSE 1] : n \in 2..3, d \in 1..3}
    \cup {<<0, 1, 0, 1>>, <<1, 0, -1>>, <<3, -4>>}

PlotEigenvalue ==
    /\ pc = "idle"
    /\ \E wi \in Eigenvectors :
           last' = [fn |-> "segments", wi |-> wi, composition |-> Composition(wi),
                    segments |-> Segments(Composition(wi))]
    /\ pc' = "plotted"
    /\ UNCHANGED gcf

NextEigenvalue ==
    /\ pc = "plotted"
    /\ pc' = "idle"
    /\ last' = NoCall
    /\ UNCHANGED gcf

NextSegments == PlotEigenvalue \/ NextEigenvalue

SpecSegments == Init /\ [][NextSegments]_vars

(***************************************************************************)
(* Properties.                                                             *)
(***************************************************************************)
Returned(fn) == pc = "returned" /\ last.fn = fn

Ok(fn) == Returned(fn) /\ last.outcome = "ok"

\* v^T m v, summed over both indices
QuadraticForm(m, v) ==
    SumSeq([i \in 1..2 |-> SumSeq([j \in 1..2 |-> v[i] * m[i][j] * v[j]])])

GridPoints(res) == (1..res) \X (1..res)

\* the grid point of mesh row r, column c
GridTheta(out, r, c) == <<out.xi[c], out.yi[r]>>

\* reference_thetas[m], or the origin when the argument or the entry is None
ReferenceTheta(a, m) ==
    IF a.reference_thetas.some /\ a.reference_thetas.val[m].some
    THEN a.reference_thetas.val[m].val
    ELSE <<0, 0>>

\* C1: the squared Fisher distance of matrix m at a grid point theta is
\* (theta - theta0)^T I_m (theta - theta0) with theta0 = reference_thetas[m] when
\* that is given, and theta0 the origin only when it is None.
C1_DistanceFromReference ==
    Ok("plot_fisher_information_contours_2d") =>
        \A m \in 1..Len(last.out.d2) : \A p \in GridPoints(last.args.resolution) :
            LET theta == GridTheta(last.out, p[1], p[2])
                theta0 == ReferenceTheta(last.args, m)
            IN last.out.d2[m][p[1]][p[2]] =
                   QuadraticForm(last.args.matrices[m],
                                 <<theta[1] - theta0[1], theta[2] - theta0[2]>>)

IsN22(shape) == Len(shape) = 3 /\ shape[2] = 2 /\ shape[3] = 2

NothingDrawn == last.log = <<>> /\ last.after = last.before /\ last.created = 0

\* C2 as stated: RuntimeError exactly when the array does not have shape
\* (n, 2, 2), raised before any figure is created.
C2_RuntimeErrorExactlyOnBadShape ==
    Returned("plot_fisher_information_contours_2d") =>
        /\ last.outcome = "RuntimeError" <=> ~IsN22(last.args.shape)
        /\ last.outcome = "RuntimeError" => NothingDrawn

\* C2, amended: for an array of at least one dimension, RuntimeError exactly when
\* its shape is not (n, 2, 2), raised before any figure is created; a
\* zero-dimensional array fails with IndexError instead, also before any figure;
\* shape (n, 2, 2) with n >= 1 raises no RuntimeError.
C2_RuntimeErrorOnBadShapeOfArray ==
    Returned("plot_fisher_information_contours_2d") =>
        /\ Len(last.args.shape) >= 1 =>
               (last.outcome = "RuntimeError" <=> ~IsN22(last.args.shape))
        /\ Len(last.args.shape) = 0 => last.outcome = "IndexError"
        /\ last.outcome \in {"RuntimeError", "IndexError"} => NothingDrawn
        /\ IsN22(last.args.shape) /\ last.args.shape[1] >= 1 => last.outcome = "ok"

C2_Witness ==
    /\ Returned("plot_fisher_information_contours_2d")
    /\ last.args.shape = <<2, 2>>
    /\ last.outcome = "RuntimeError"
    /\ last.before # <<>>

\* C3: plot_2d_morphing_basis queries the weights once per grid point, every pair
\* (xi[c], yi[r]) as often as it occurs in the grid, resolution^2 queries in all,
\* and the scalar at mesh row r, column c is the norm of the weights at
\* theta = (xi[c], yi[r]).
C3_OneQueryPerGridPoint ==
    Ok("plot_2d_morphing_basis") =>
        LET res == last.args.resolution
            out == last.out
        IN /\ out.xi = Linspace(last.args.xrange[1], last.args.xrange[2], res)
           /\ out.yi = Linspace(last.args.yrange[1], last.args.yrange[2], res)
           /\ Len(last.queries) = res * res
           /\ \A k \in 1..Len(last.queries) : last.queries[k].fn = "calculate_morphing_weights"
           /\ \A p \in GridPoints(res) :
                  /\ Cardinality({k \in 1..Len(last.queries) :
                                     last.queries[k].theta = GridTheta(out, p[1], p[2])})
                     = Cardinality({q \in GridPoints(res) :
                                     GridTheta(out, q[1], q[2]) = GridTheta(out, p[1], p[2])})
                  /\ out.mesh[p[1]][p[2]] =
                         Norm(MorphingWeights(last.args.morpher, GridTheta(out, p[1], p[2])))

C3_Witness ==
    /\ Ok("plot_2d_morphing_basis")
    /\ last.args.resolution = 3
    /\ last.args.xrange = <<0, 6>>
    /\ last.args.yrange = <<-2, 2>>
    /\ Len(last.queries) = 9
    /\ last.out.mesh[1][3] # last.out.mesh[3][1]

\* the call of function fn with arguments a on registry g
Run(fn, a, g) ==
    CASE fn = "plot_2d_morphing_basis" -> Plot2dMorphingBasis(a, g)
      [] fn = "plot_nd_morphing_basis_scatter" -> PlotNdMorphingBasisScatter(a, g)
      [] fn = "plot_nd_morphing_basis_slices" -> PlotNdMorphingBasisSlices(a, g)
      [] fn = "plot_fisher_information_contours_2d" -> PlotFisherInformationContours2d(a, g)
      [] fn = "plot_fisherinfo_barplot" -> PlotFisherinfoBarplot(a, g)
      [] fn = "kinematic_distribution_of_information" -> KinematicDistributionOfInformation(a, g)

\* what a call put on its figure: each event's operation and whether it acted on
\* the figure the call created
Rendering(r) ==
    [i \in 1..Len(r.log) |-> <<r.log[i].op, r.log[i].target = r.created>>]

\* C4: each call creates a new figure before it draws; every drawing operation
\* of the call (and its plt.close) acts on the figure the call created, never on
\* one left open by an earlier call; what the call computes and puts on its figure
\* is what the same call does when no figure is open.
C4_CallsDrawOnTheirOwnFigure ==
    pc = "returned" =>
        /\ last.log # <<>> =>
               /\ last.log[1] = Event("plt.figure", last.created)
               /\ last.created \notin Range(last.before)
        /\ \A i \in 1..Len(last.log) :
               /\ last.log[i].op # "implicit figure"
               /\ i > 1 => last.log[i].op # "plt.figure"
               /\ i \in Draws(last.log) => last.log[i].target = last.created
               /\ last.log[i].op = "plt.close" => last.log[i].target \in {0, last.created}
        /\ LET alone == Run(last.fn, last.args, <<>>)
           IN /\ alone.outcome = last.outcome
              /\ alone.out = last.out
              /\ alone.queries = last.queries
              /\ Rendering(alone) = Rendering(last)

C4_Witness ==
    /\ Ok("plot_fisherinfo_barplot")
    /\ last.before = <<1>>
    /\ last.created = 2
    /\ last.after = <<1>>
    /\ \E i \in 1..Len(last.log) : last.log[i] = Event("fig.savefig", 2)

MorphingFunctions ==
    {"plot_2d_morphing_basis", "plot_nd_morphing_basis_scatter", "plot_nd_morphing_basis_slices"}

\* C5: the three morphing-basis functions fail with an assertion error when
\* morpher.basis is None, plot_2d_morphing_basis also when the basis does not have
\* exactly 2 columns; a call that fails so has queried the morpher never and has
\* created no figure.
C5_AssertionsBeforeQueriesAndFigure ==
    (pc = "returned" /\ last.fn \in MorphingFunctions) =>
        /\ ~last.args.morpher.has_basis => last.outcome = "AssertionError"
        /\ (/\ last.fn = "plot_2d_morphing_basis"
            /\ last.args.morpher.has_basis
            /\ Len(last.args.morpher.basis[1]) # 2) => last.outcome = "AssertionError"
        /\ last.outcome = "AssertionError" => last.queries = <<>> /\ NothingDrawn

C5_Witness ==
    /\ Returned("plot_2d_morphing_basis")
    /\ last.args.morpher.has_basis
    /\ Len(last.args.morpher.basis[1]) = 3
    /\ last.outcome = "AssertionError"
    /\ last.before # <<>>

HasCovariance(a, m) ==
    a.fisher_information_covariances.some /\ a.fisher_information_covariances.val[m].some

\* the covariance tensor contracted four times with theta
Contraction4(cov, theta) ==
    SumSeq([n \in 1..16 |->
        LET i == (((n - 1) \div 8) % 2) + 1
            j == (((n - 1) \div 4) % 2) + 1
            k == (((n - 1) \div 2) % 2) + 1
            l == ((n - 1) % 2) + 1
        IN cov[i][j][k][l] * theta[i] * theta[j] * theta[k] * theta[l]])

\* t lies strictly between d2 - sqrt(var) and d2 + sqrt(var): |t - d2| < sqrt(var)
StrictlyBetween(t, d2, var) == var >= 0 /\ (t - d2) * (t - d2) < var

\* C7: a band is drawn for matrix m exactly when fisher_information_covariances[m]
\* is not None (none when the argument is None), and it marks exactly the grid
\* points where contour_distance^2 lies strictly between d2 - sigma and d2 + sigma,
\* sigma the square root of the covariance contracted four times with theta.
C7_UncertaintyBands ==
    Ok("plot_fisher_information_contours_2d") =>
        LET a == last.args
            out == last.out
        IN /\ \A m \in 1..a.shape[1] : out.bands[m].some <=> HasCovariance(a, m)
           /\ Cardinality({i \in 1..Len(last.log) : last.log[i].op = "plt.contourf"})
                  = Cardinality({m \in 1..a.shape[1] : HasCovariance(a, m)})
           /\ \A m \in 1..a.shape[1] : HasCovariance(a, m) =>
                  \A p \in GridPoints(a.resolution) :
                      LET var == Contraction4(a.fisher_information_covariances.val[m].val,
                                              GridTheta(out, p[1], p[2]))
                      IN /\ out.unc[m].val[p[1]][p[2]] = [sqrt_of |-> var]
                         /\ out.bands[m].val[p[1]][p[2]]
                                <=> StrictlyBetween(a.contour_distance * a.contour_distance,
                                                    out.d2[m][p[1]][p[2]], var)

\* no band for the first matrix; for the second a band with a marked point and
\* an unmarked point on its edge (sigma = 0 where d2 is the threshold)
C7_Witness ==
    /\ Ok("plot_fisher_information_contours_2d")
    /\ last.args.shape = <<2, 2, 2>>
    /\ last.args.resolution = 3
    /\ ~last.out.bands[1].some
    /\ last.out.bands[2].some
    /\ \E p \in GridPoints(3) : last.out.bands[2].val[p[1]][p[2]]
    /\ \E p \in GridPoints(3) :
           /\ ~last.out.bands[2].val[p[1]][p[2]]
           /\ last.out.unc[2].val[p[1]][p[2]] = [sqrt_of |-> 0]
           /\ last.out.d2[2][p[1]][p[2]] = last.out.level

\* the bars of the lower panel have been drawn
BarsDrawn ==
    /\ Returned("plot_fisherinfo_barplot")
    /\ \E i \in 1..Len(last.log) : last.log[i].op = "ax3.bar"

\* C8: two consecutive entries of different categories are farther apart than two
\* consecutive entries of the same category (which are 1 apart), no two entries
\* share an x position, every bar lies inside the x limits
\* [base_xmin - 0.2, base_xmax + 0.2], and an empty categories list puts every
\* entry in category 0 with unit spacing.
C8_CategoriesSpaceTheEntries ==
    BarsDrawn =>
        LET out == last.out
            n == Len(out.base_xvalues)
            x == out.base_xvalues
        IN /\ \A i \in 1..(n - 1) :
                  IF out.categories[i] = out.categories[i + 1]
                  THEN x[i + 1] - x[i] = 100
                  ELSE x[i + 1] - x[i] > 100
           /\ \A i, j \in 1..n : i # j => x[i] # x[j]
           /\ \A i \in 1..n :
                  /\ out.xlim[1] <= out.xmin_eigenvalues[i]
                  /\ out.xmax_eigenvalues[i] <= out.xlim[2]
                  /\ out.xlim[1] <= out.xpos_lower[i] - out.width_lower \div 2
                  /\ out.xpos_lower[i] + out.width_lower \div 2 <= out.xlim[2]
           /\ last.args.categories = <<>> =>
                  /\ \A i \in 1..n : out.categories[i] = 0
                  /\ \A i \in 1..(n - 1) : x[i + 1] - x[i] = 100

\* the largest determinant of matrices_for_determinants
LargestDet(ms) ==
    CHOOSE d \in {Det(ms[i]) : i \in 1..Len(ms)} : \A i \in 1..Len(ms) : Det(ms[i]) <= d

IsOne(v) == ~v.nan /\ v.den > 0 /\ v.num = v.den

AtMostOne(v) == ~v.nan /\ v.den > 0 /\ v.num <= v.den

\* entry by entry, the bar of matrix i is det(m_i)^(1/size_lower) over the largest
\* such value
BarsAreQuotients ==
    LET ms == last.args.matrices_for_determinants
    IN /\ Len(last.out.determinants) = Len(ms)
       /\ \A i \in 1..Len(ms) :
              /\ last.out.determinants[i].num = Det(ms[i])
              /\ last.out.determinants[i].den = LargestDet(ms)
              /\ last.out.determinants[i].root = Len(ms[2])

BarsAreUnscaled ==
    LET ms == last.args.matrices_for_determinants
    IN /\ Len(last.out.determinants) = Len(ms)
       /\ \A i \in 1..Len(ms) :
              last.out.determinants[i] =
                  [nan |-> FALSE, num |-> Det(ms[i]), den |-> 1, root |-> Len(ms[2])]
       /\ IsOne(last.out.max_information)

\* C9 as stated: with normalise_determinants the bars are the quotients, the
\* largest bar is exactly 1 and every bar is at most 1, in the order of the
\* matrices; without it the bars are unscaled and max_information is 1.
C9_LargestBarIsOne ==
    BarsDrawn =>
        IF last.args.normalise_determinants
        THEN /\ BarsAreQuotients
             /\ \E i \in 1..Len(last.out.determinants) : IsOne(last.out.determinants[i])
             /\ \A i \in 1..Len(last.out.determinants) : AtMostOne(last.out.determinants[i])
        ELSE BarsAreUnscaled

\* C9, amended: with normalise_determinants the bars are the quotients, in the
\* order of the matrices; when the largest value is positive the largest bar is
\* exactly 1 and every bar is at most 1, and when it is 0 (every matrix is
\* singular) every bar is 0 / 0, not a number; without normalise_determinants the
\* bars are unscaled and max_information is 1.
C9_LargestBarIsOneWhenPositive ==
    BarsDrawn =>
        IF last.args.normalise_determinants
        THEN /\ BarsAreQuotients
             /\ IF LargestDet(last.args.matrices_for_determinants) > 0
                THEN /\ \E i \in 1..Len(last.out.determinants) : IsOne(last.out.determinants[i])
                     /\ \A i \in 1..Len(last.out.determinants) :
                            AtMostOne(last.out.determinants[i])
                ELSE \A i \in 1..Len(last.out.determinants) : last.out.determinants[i].nan
        ELSE BarsAreUnscaled

\* normalised bars, the largest neither first nor last, one bar below 1
C9_Witness ==
    /\ BarsDrawn
    /\ last.outcome = "ok"
    /\ last.args.normalise_determinants
    /\ Len(last.out.determinants) = 3
    /\ IsOne(last.out.determinants[2])
    /\ ~IsOne(last.out.determinants[1])
    /\ ~IsOne(last.out.determinants[3])

\* C10: with eigenvalue_operator_legend and one operator label per matrix
\* dimension, whatever that dimension, the upper panel gets a text for the header
\* and one for every operator label, each operator label at an x position of its
\* own and in the color of that operator's eigenvector segments.
C10_LegendNamesEveryOperator ==
    (/\ BarsDrawn
     /\ last.args.eigenvalue_operator_legend
     /\ Len(last.args.operatorlabels) = last.out.size_upper) =>
        LET texts == last.out.texts
            ops == last.args.operatorlabels
        IN /\ Len(texts) = 1 + Len(ops)
           /\ Cardinality({i \in 1..Len(last.log) : last.log[i].op = "ax1.text"}) = 1 + Len(ops)
           /\ texts[1].text = "Eigenvector composition:"
           /\ \A j \in 1..Len(ops) :
                  /\ texts[j + 1].text = ops[j]
                  /\ texts[j + 1].color = EigenvalueColors[j]
           /\ \A j, k \in 1..Len(texts) : j # k => texts[j].x # texts[k].x

StrictlyIncreasing(xbins) == \A i \in 1..(Len(xbins) - 1) : xbins[i] < xbins[i + 1]

\* C11: with norm_xsec every cross-section is divided by max(sum(xsecs), 1e-9):
\* the divisor is never 0, the weights sum to 1 when the total is at least 1e-9
\* (for integers: positive); without norm_xsec the cross-sections are plotted
\* unchanged; and when xbins is strictly increasing each bin of the histogram
\* holds exactly the weight of its own midpoint.
C11_NormalisedWeightsAndBins ==
    Ok("kinematic_distribution_of_information") =>
        LET a == last.args
            w == last.out.xsec_norm
            total == SumSeq(a.xsecs)
        IN /\ Len(w) = Len(a.xsecs)
           /\ \A i \in 1..Len(w) :
                  /\ w[i].num = a.xsecs[i]
                  /\ w[i].den.epsilon \/ w[i].den.n > 0
                  /\ a.norm_xsec => (w[i].den.epsilon <=> total <= 0)
                  /\ (a.norm_xsec /\ total > 0) => w[i].den.n = total
                  /\ ~a.norm_xsec => w[i].den = [epsilon |-> FALSE, n |-> 1]
           /\ (a.norm_xsec /\ total > 0) =>
                  SumSeq([i \in 1..Len(w) |-> w[i].num]) = w[1].den.n
           /\ \A i \in 1..Len(last.out.xvals2) :
                  last.out.xvals2[i] = a.xbins[i] + a.xbins[i + 1]
           /\ StrictlyIncreasing(a.xbins) =>
                  /\ Len(last.out.hist) = Len(a.xbins) - 1
                  /\ \A k \in 1..Len(last.out.hist) : last.out.hist[k] = {k}

C11_Witness ==
    /\ Ok("kinematic_distribution_of_information")
    /\ last.args.norm_xsec
    /\ last.args.xbins = <<0, 2, 6>>
    /\ last.args.xsecs = <<3, 1>>
    /\ last.out.xsec_norm[1] = [num |-> 3, den |-> [epsilon |-> FALSE, n |-> 4]]
    /\ last.out.hist = <<{1}, {2}>>

\* the lengths the two assertions compare differ
LabelsMismatch ==
    /\ Returned("plot_fisherinfo_barplot")
    /\ Len(last.args.matrices_for_determinants) # Len(last.args.labels)

BinsMismatch ==
    /\ Returned("kinematic_distribution_of_information")
    /\ Len(last.args.xbins) - 1 # Len(last.args.matrices)

\* C12 as stated: plot_fisherinfo_barplot fails its assertion when the number of
\* matrices_for_determinants differs from the number of labels, and
\* kinematic_distribution_of_information when len(xbins) - 1 differs from the
\* number of matrices; no figure or folder has been created, no file written.
C12_MismatchFailsTheAssertion ==
    (LabelsMismatch \/ BinsMismatch) =>
        /\ last.outcome = "AssertionError"
        /\ NothingDrawn

\* What holds of such a mismatch: the call fails before any figure or folder is
\* created or file written, with its assertion when the list whose index 1 gives
\* the matrix size has at least two entries, with IndexError at that index
\* otherwise.
MismatchFailsBeforeAnyEffect ==
    /\ LabelsMismatch =>
           /\ NothingDrawn
           /\ last.outcome =
                  IF Len(last.args.matrices) >= 2
                     /\ Len(last.args.matrices_for_determinants) >= 2
                  THEN "AssertionError" ELSE "IndexError"
    /\ BinsMismatch =>
           /\ NothingDrawn
           /\ last.outcome =
                  IF Len(last.args.matrices) >= 2 THEN "AssertionError" ELSE "IndexError"

\* the positions of operation op in the log of the call
Positions(op) == {i \in 1..Len(last.log) : last.log[i].op = op}

ReturnsFigure ==
    {"plot_2d_morphing_basis", "plot_nd_morphing_basis_scatter",
     "plot_nd_morphing_basis_slices", "plot_fisher_information_contours_2d"}

WritesFile == {"plot_fisherinfo_barplot", "kinematic_distribution_of_information"}

\* C13: a successful plot_fisherinfo_barplot or
\* kinematic_distribution_of_information opens its figure, then shows it, then
\* creates the folder of filename, then saves the figure exactly once, then
\* closes it, in this order and each once, the close being the last operation and
\* the figure no longer open afterwards; a successful call of one of the four
\* functions that return a Figure neither shows, saves nor closes it and leaves
\* it open as the current figure.
C13_FigureLifecycle ==
    (pc = "returned" /\ last.outcome = "ok") =>
        IF last.fn \in WritesFile
        THEN LET n == Len(last.log)
             IN /\ n >= 5
                /\ Positions("plt.figure") = {1}
                /\ \E s \in 2..(n - 3) : Positions("plt.show") = {s}
                /\ Positions("create_missing_folders") = {n - 2}
                /\ Positions("fig.savefig") = {n - 1}
                /\ Positions("plt.close") = {n}
                /\ last.log[n - 1].target = last.created
                /\ last.log[n].target \in {0, last.created}
                /\ last.created \notin Range(last.after)
        ELSE /\ last.fn \in ReturnsFigure
             /\ Positions("plt.figure") = {1}
             /\ Positions("plt.show") = {}
             /\ Positions("create_missing_folders") = {}
             /\ Positions("fig.savefig") = {}
             /\ Positions("plt.close") = {}
             /\ last.after = Append(last.before, last.created)

C13_Witness ==
    /\ Ok("kinematic_distribution_of_information")
    /\ last.before = <<1>>
    /\ last.created = 2
    /\ last.after = <<1>>
    /\ last.args.show_aux
    /\ last.log[Len(last.log)] = Event("plt.close", 2)
    /\ last.log[Len(last.log) - 1] = Event("fig.savefig", 2)
    /\ last.log[Len(last.log) - 2] = Event("create_missing_folders", 0)

\* the components (0-based) of a composition whose fraction is at least 0.01
PlottedComponents(composition) ==
    {j - 1 : j \in {i \in 1..Len(composition) : 100 * composition[i].num >= composition[i].den}}

\* C14: the segments of an eigenvalue are those of the components whose fraction
\* is at least 0.01, left to right in operator order, each of non-negative
\* length, consecutive ones separated by a gap of 0.04 of the bar's width, none
\* overlapping, all inside the bar, for every dimension up to the 30 segment
\* colors.
C14_SegmentsInsideTheBar ==
    pc = "plotted" =>
        LET segs == last.segments
            n == Len(segs)
        IN /\ {segs[k].component : k \in 1..n} = PlottedComponents(last.composition)
           /\ n = Cardinality(PlottedComponents(last.composition))
           /\ \A k \in 1..(n - 1) :
                  /\ segs[k].component < segs[k + 1].component
                  /\ 25 * (segs[k + 1].from - segs[k].to) = segs[k].unit
                  /\ segs[k].to <= segs[k + 1].from
           /\ \A k \in 1..n :
                  /\ segs[k].from <= segs[k].to
                  /\ 0 <= segs[k].from
                  /\ segs[k].to <= segs[k].unit

====
